---- MODULE Spec2Model ----
(***************************************************************************)
(* Model of the model cache and acquisition subsystem:                     *)
(*   ModelCacheManager  (cache index, eviction, clear)                     *)
(*   ModelConfigManager (catalog, disk check, download, ensure available)  *)
(*                                                                         *)
(* Every async method is cut at its awaits.  One action is "the awaited    *)
(* I/O takes effect and the code runs on to the next await or return".     *)
(* The synchronous prefix of a callee runs inside the caller's action.     *)
(*                                                                         *)
(* Units: file sizes and the cache ceiling are in GiB, disk space is in    *)
(* MiB, time is in periods of fifteen days.                                *)
(***************************************************************************)
EXTENDS Integers, Sequences, FiniteSets, TLC

\* ------------------------------------------------------------------ bounds
MaxClock == 3
MaxDepth == 1

\* ------------------------------------------------------- program constants
MaxCacheSize == 10
MaxModelAge == 2

Callers == {1, 2}
Version == "1.0.0"
CatalogNames == {"whisper-small", "distilbart-summarization"}
Names == CatalogNames \cup {"aux-model"}
ModelTypes == {"transcription", "summarization"}

\* the types of modelConfigs in array order (lines 73-92).
CatalogOrder == <<"transcription", "summarization">>

\* the catalog of getModelConfigs (lines 73-92); disk space in MiB.
ConfigOfType(t) == IF t = "transcription" THEN "whisper-small" ELSE "distilbart-summarization"
RequiredDiskSpace(n) == IF n = "whisper-small" THEN 500 ELSE 1024
Checksum(n) == ""

\* what getDiskSpace may answer: its placeholder value (500 GiB) and the
\* answers of a real disk around the catalog's requirements.
AvailableSpace == {100, 500, 512000}
NoAvail == 0 - 1

\* size in GiB of the artifact behind each name, and of a fetched body
\* (the artifact, or one larger than the cache ceiling).
ArtifactSize(n) == IF n = "distilbart-summarization" THEN 6 ELSE 5
FetchOutcomes == {"ok", "neterr", "status", "abort"}

\* SHA-256 hex digests: of the artifact behind each name, of a body larger
\* than the ceiling, of a file whose write is under way.
Sha256Hex(f) ==
  CASE f.st = "partial" -> "e3b0"
    [] f.st = "complete" /\ f.size = 5 -> "5a5a"
    [] f.st = "complete" /\ f.size = 6 -> "6b6b"
    [] OTHER -> "bbbb"

\* the digests a holder of a descriptor may declare in its checksum field.
DeclaredChecksums == {"5a5a", "bbbb"}

NoName == "-"
NoPath == [n |-> NoName, d |-> 0]
Paths == [n : Names, d : 0..(MaxDepth + 1)]
Absent == [st |-> "absent", size |-> 0]

\* Return values of the async methods: null, a path, a thrown error.
NoRv == [k |-> "none", p |-> NoPath]
NullRv == [k |-> "null", p |-> NoPath]
ThrowRv == [k |-> "throw", p |-> NoPath]
PathRv(p) == [k |-> "path", p |-> p]
BoolRv(b) == [k |-> IF b THEN "true" ELSE "false", p |-> NoPath]
ConfigRv(p) == [k |-> "config", p |-> p]

VARIABLES
  cacheIndex,   \* ModelCacheManager.cacheIndex: the Map, in insertion order
  persisted,    \* content of cache-index.json
  files,        \* the file system: path -> [st, size]
  now,          \* Date.now()
  initialized,  \* ModelConfigManager.modelConfigs.length > 0
  localPath,    \* localPath of each descriptor in modelConfigs
  checksum,     \* checksum of each descriptor in modelConfigs
  proc,         \* per caller: position in the code and locals
  touched       \* history: the entry a cache hit last took out of the oldest place

vars == <<cacheIndex, persisted, files, now, initialized, localPath, checksum, proc, touched>>

\* --------------------------------------------------------------- Map helpers
Has(idx, n) == \E i \in 1..Len(idx) : idx[i].name = n
Pos(idx, n) == CHOOSE i \in 1..Len(idx) : idx[i].name = n
Get(idx, n) == idx[Pos(idx, n)]
RemoveAt(s, i) == SubSeq(s, 1, i - 1) \o SubSeq(s, i + 1, Len(s))
MapSet(idx, e) ==
  IF Has(idx, e.name) THEN [idx EXCEPT ![Pos(idx, e.name)] = e] ELSE Append(idx, e)
MapDelete(idx, n) == IF Has(idx, n) THEN RemoveAt(idx, Pos(idx, n)) ELSE idx
IndexNames(idx) == {idx[i].name : i \in 1..Len(idx)}

RECURSIVE SumSizes(_)
SumSizes(s) == IF s = <<>> THEN 0 ELSE s[1].size + SumSizes(Tail(s))

Exists(fs, p) == fs[p].st # "absent"

\* fs.unlink removes the file, or rejects: the file is not there, or the
\* system refuses (busy, not permitted).
Unlinks(fs, p, ok) == Exists(fs, p) /\ ok

\* path.join(cacheDir, `${hash}-${path.basename(modelPath)}`)
CachedPath(n, src) == [n |-> n, d |-> src.d + 1]
LocalPath0(n) == [n |-> n, d |-> 0]

Idle ==
  [pc |-> "idle", stack |-> <<>>, rv |-> NoRv, op |-> "none", arg |-> NoName,
   eName |-> NoName, cfgStale |-> FALSE, cfgPath |-> NoPath, ePath |-> NoPath,
   cfgSum |-> "", vPath |-> NoPath, vSum |-> "",
   avail |-> NoAvail, dSize |-> 0,
   fetchFailed |-> FALSE, registered |-> FALSE, fresh |-> FALSE, localFound |-> FALSE,
   daI |-> 0, daCalled |-> {}, daFailed |-> {},
   gName |-> NoName, gPath |-> NoPath, gLive |-> FALSE, gLU |-> 0,
   cName |-> NoName, cSrc |-> NoPath, cSize |-> 0,
   sorted |-> <<>>, cur |-> 0, sorted0 |-> <<>>, mStale |-> {},
   xPos |-> 0, xPath |-> NoPath, xFrozen |-> FALSE, xRest |-> <<>>, xFailed |-> FALSE,
   snap |-> <<>>]

Ret(r, v) == [r EXCEPT !.pc = Head(r.stack), !.stack = Tail(r.stack), !.rv = v]

\* A Map entry object leaves the Map (delete, or set over the same key):
\* references held across an await keep the detached object; live Map
\* iterators step back when an entry before them goes away. mStale is
\* history only: the names in a sweep's sorted list whose entry object is
\* no longer the one in the Map.
Detach(P, idx, n) ==
  IF ~Has(idx, n) THEN P
  ELSE [q \in DOMAIN P |->
         LET r == P[q]
             hit == r.gLive /\ r.gName = n
             listed == r.pc = "mUnlink" /\ \E i \in 1..Len(r.sorted) : r.sorted[i].name = n
         IN [r EXCEPT !.gLive = IF hit THEN FALSE ELSE @,
                      !.gLU = IF hit THEN Get(idx, n).lastUsed ELSE @,
                      !.mStale = IF listed THEN @ \cup {n} ELSE @]]

Unvisit(P, idx, n) ==
  IF ~Has(idx, n) THEN P
  ELSE [q \in DOMAIN P |->
         LET r == P[q]
         IN [r EXCEPT !.xPos = IF r.pc = "xUnlink" /\ ~r.xFrozen /\ Pos(idx, n) <= @
                                THEN @ - 1 ELSE @]]

DeleteEffect(P, idx, n) == Unvisit(Detach(P, idx, n), idx, n)

RECURSIVE DetachAll(_, _, _)
DetachAll(P, idx, i) ==
  IF i > Len(idx) THEN P ELSE DetachAll(Detach(P, idx, idx[i].name), idx, i + 1)

\* cacheIndex.clear(): every entry object is detached, iterators restart.
ClearEffect(P, idx) ==
  LET Q == DetachAll(P, idx, 1)
  IN [q \in DOMAIN Q |->
       [Q[q] EXCEPT !.xPos = IF Q[q].pc = "xUnlink" /\ ~Q[q].xFrozen THEN 0 ELSE @]]

\* this.cacheIndex = new Map(...): the old Map is left to those who hold
\* it; its entry objects are detached and an iterator over it goes on over
\* what it had not yet visited.
MapReplaced(P, idx) ==
  LET P1 == DetachAll(P, idx, 1)
  IN [q \in DOMAIN P1 |->
       LET r == P1[q]
           iter == r.pc = "xUnlink" /\ ~r.xFrozen
       IN [r EXCEPT !.xFrozen = IF iter THEN TRUE ELSE @,
                    !.xPos = IF iter THEN 0 ELSE @,
                    !.xRest = IF iter
                              THEN [i \in 1..(Len(idx) - r.xPos) |-> idx[r.xPos + i].path]
                              ELSE @]]

\* ===================================================== ModelCacheManager
\* cache-index.json as fs.readFile and JSON.parse see it: missing,
\* unreadable, text that is not JSON, or a JSON value (null, a number, a
\* string, an object, an array). An item of an array is a primitive, an
\* object, or an array whose first two places are key and val
\* ("undefined" where the place is empty); a val is null, an object
\* without the fields of an entry, or an entry.
Undefined == "undefined"
NoEntryBody == [path |-> NoPath, lastUsed |-> 0, size |-> 0, version |-> ""]
EntryVal(e) ==
  [v |-> "entry",
   e |-> [path |-> e.path, lastUsed |-> e.lastUsed, size |-> e.size, version |-> e.version]]
OtherVal(v) == [v |-> v, e |-> NoEntryBody]
PrimItem == [t |-> "prim", key |-> Undefined, val |-> OtherVal(Undefined)]
ObjItem == [t |-> "obj", key |-> Undefined, val |-> OtherVal(Undefined)]
ArrItem(key, val) == [t |-> "arr", key |-> key, val |-> val]
ArrayFile(items) == [k |-> "arr", items |-> items]
OtherFile(k) == [k |-> k, items |-> <<>>]

\* JSON.stringify(Array.from(this.cacheIndex.entries())) of line 64
StringifyIndex(idx) ==
  ArrayFile([i \in 1..Len(idx) |-> ArrItem(idx[i].name, EntryVal(idx[i]))])

\* the Map constructor takes every item that is an object (an array is
\* one) and throws a TypeError on a primitive.
IsEntryObject(item) == item.t # "prim"

\* what Map.set(item[0], item[1]) stores: the entry, or whatever else the
\* val is (kept in place of the version).
StoredEntry(item) ==
  IF item.val.v = "entry"
  THEN [name |-> item.key, path |-> item.val.e.path, lastUsed |-> item.val.e.lastUsed,
        size |-> item.val.e.size, version |-> item.val.e.version]
  ELSE [name |-> item.key, path |-> NoPath, lastUsed |-> 0, size |-> 0,
        version |-> item.val.v]

RECURSIVE MapFromItems(_)
MapFromItems(items) ==
  IF items = <<>> THEN <<>>
  ELSE MapSet(MapFromItems(SubSeq(items, 1, Len(items) - 1)), StoredEntry(items[Len(items)]))

\* loadCacheIndex (lines 48-57): readFile, JSON.parse and new Map inside
\* one try whose catch installs an empty Map. new Map(null) is empty; a
\* number or an object is not iterable, the characters of a string and
\* the primitives of an array are no entry objects.
LoadCacheIndex(c) ==
  IF c.k # "arr" THEN <<>>
  ELSE IF \E i \in 1..Len(c.items) : ~IsEntryObject(c.items[i]) THEN <<>>
  ELSE MapFromItems(c.items)

\* saveCacheIndex: JSON.stringify runs when writeFile is called; the write
\* itself lands at the next action of the caller.
SaveIssue(r, idx) == [r EXCEPT !.snap = idx]

IsRecent_Always(t, lastUsed) == TRUE

\* (Date.now() - cacheEntry.lastUsed) < this.maxModelAge
IsRecent(t, lastUsed) == (t - lastUsed) < MaxModelAge

\* Array.prototype.sort((a, b) => a[1].lastUsed - b[1].lastUsed): stable.
InsertByLastUsed(e, s) ==
  LET k == Cardinality({j \in 1..Len(s) : s[j].lastUsed <= e.lastUsed})
  IN SubSeq(s, 1, k) \o <<e>> \o SubSeq(s, k + 1, Len(s))

RECURSIVE SortByLastUsed(_)
SortByLastUsed(s) ==
  IF s = <<>> THEN <<>>
  ELSE InsertByLastUsed(s[Len(s)], SortByLastUsed(SubSeq(s, 1, Len(s) - 1)))

\* while (currentCacheSize > this.maxCacheSize && sortedEntries.length > 0)
OverCeiling(cur, sorted) == cur > MaxCacheSize /\ Len(sorted) > 0

GClear(r) == [r EXCEPT !.gName = NoName, !.gPath = NoPath, !.gLive = FALSE,
                       !.gLU = 0, !.snap = <<>>]
CClear(r) == [r EXCEPT !.cName = NoName, !.cSrc = NoPath, !.cSize = 0,
                       !.sorted = <<>>, !.cur = 0, !.sorted0 = <<>>, !.mStale = {},
                       !.snap = <<>>]
XClear(r) == [r EXCEPT !.xPos = 0, !.xPath = NoPath, !.xFrozen = FALSE,
                       !.xRest = <<>>, !.snap = <<>>]

\* getModelFromCache, up to its first await (lines 116-122).
GetEnter(r, idx, n, label) ==
  IF ~Has(idx, n) THEN [r EXCEPT !.pc = label, !.rv = NullRv]
  ELSE [r EXCEPT !.pc = "gStat", !.stack = <<label>> \o @,
                 !.gName = n, !.gPath = Get(idx, n).path, !.gLive = TRUE]

PurgeStale_Keep(idx, n) == idx

\* this.cacheIndex.delete(modelName) of line 133
PurgeStale(idx, n) == MapDelete(idx, n)

\* history only: of two entries or more, n is the first in line for
\* eviction (the smallest lastUsed, the first of those in the Map).
FirstInLine(idx, n) == Len(idx) >= 2 /\ SortByLastUsed(idx)[1].name = n

\* fs.stat(cacheEntry.path) answers; lines 122-135.
GStat(p) ==
  /\ proc[p].pc = "gStat"
  /\ LET r == proc[p]
         lu == IF r.gLive THEN Get(cacheIndex, r.gName).lastUsed ELSE r.gLU
     IN IF Exists(files, r.gPath)
        THEN IF IsRecent(now, lu)
             THEN LET idx1 == IF r.gLive
                              THEN [cacheIndex EXCEPT ![Pos(cacheIndex, r.gName)].lastUsed = now]
                              ELSE cacheIndex
                  IN /\ cacheIndex' = idx1
                     /\ proc' = [proc EXCEPT ![p] = SaveIssue([r EXCEPT !.pc = "gSaveHit"], idx1)]
                     /\ touched' = IF r.gLive /\ FirstInLine(cacheIndex, r.gName)
                                   THEN r.gName ELSE NoName
             ELSE /\ cacheIndex' = cacheIndex
                  /\ proc' = [proc EXCEPT ![p] = Ret(GClear(r), NullRv)]
                  /\ touched' = touched
        ELSE LET idx1 == PurgeStale(cacheIndex, r.gName)
                 P1 == DeleteEffect(proc, cacheIndex, r.gName)
             IN /\ cacheIndex' = idx1
                /\ proc' = [P1 EXCEPT ![p] = SaveIssue([P1[p] EXCEPT !.pc = "gSaveMiss"], idx1)]
                /\ touched' = IF touched = r.gName THEN NoName ELSE touched
  /\ UNCHANGED <<persisted, files, now, initialized, localPath, checksum>>

\* initializeCacheDirectory (lines 35-46) called on its own: mkdir, then
\* loadCacheIndex up to its await (line 51).
CallInitializeCacheDirectory(p) ==
  /\ proc[p].pc = "idle"
  /\ proc' = [proc EXCEPT ![p] = [@ EXCEPT !.op = "initializeCacheDirectory",
                                          !.pc = "lRead", !.stack = <<"done">>]]
  /\ UNCHANGED <<cacheIndex, persisted, files, now, initialized, localPath, touched, checksum>>

\* fs.readFile(indexPath) answers or rejects; lines 51-56. Here persisted
\* is cache-index.json as it is found, well-formed or not.
LRead(p) ==
  /\ proc[p].pc = "lRead"
  /\ cacheIndex' = LoadCacheIndex(persisted)
  /\ LET P1 == MapReplaced(proc, cacheIndex)
     IN proc' = [P1 EXCEPT ![p] = Ret(P1[p], NullRv)]
  /\ UNCHANGED <<persisted, files, now, initialized, localPath, touched, checksum>>

\* the save of line 128 lands; return cacheEntry.path.
GSaveHit(p) ==
  /\ proc[p].pc = "gSaveHit"
  /\ persisted' = proc[p].snap
  /\ proc' = [proc EXCEPT ![p] = Ret(GClear(@), PathRv(@.gPath))]
  /\ UNCHANGED <<cacheIndex, files, now, initialized, localPath, touched, checksum>>

\* the save of line 134 lands; return null.
GSaveMiss(p) ==
  /\ proc[p].pc = "gSaveMiss"
  /\ persisted' = proc[p].snap
  /\ proc' = [proc EXCEPT ![p] = Ret(GClear(@), NullRv)]
  /\ UNCHANGED <<cacheIndex, files, now, initialized, localPath, touched, checksum>>

\* cacheModel, up to its first await (line 77).
CacheEnter(r, n, src, label) ==
  [r EXCEPT !.pc = "cStat", !.stack = <<label>> \o @, !.cName = n, !.cSrc = src]

\* fs.stat(modelPath) answers; lines 77-88.
CStat(p) ==
  /\ proc[p].pc = "cStat"
  /\ LET r == proc[p]
     IN proc' = [proc EXCEPT ![p] =
                   IF Exists(files, r.cSrc)
                   THEN [r EXCEPT !.pc = "cCopy", !.cSize = files[r.cSrc].size]
                   ELSE Ret(CClear(r), ThrowRv)]
  /\ UNCHANGED <<cacheIndex, persisted, files, now, initialized, localPath, touched, checksum>>

NewEntry(n, path, t, size) ==
  [name |-> n, path |-> path, lastUsed |-> t, size |-> size, version |-> Version]

IndexAfterCopy_SetFirst(idx, e, copied) == MapSet(idx, e)

\* this.cacheIndex.set(modelName, cacheEntry) of line 99 comes after the
\* await of fs.copyFile: a rejected copy leaves the Map as it is.
IndexAfterCopy(idx, e, copied) == IF copied THEN MapSet(idx, e) ELSE idx

\* fs.copyFile(modelPath, cachedModelPath) finishes or rejects; lines 88-100.
CCopy(p) ==
  /\ proc[p].pc = "cCopy"
  /\ LET r == proc[p]
         dst == CachedPath(r.cName, r.cSrc)
         copied == Exists(files, r.cSrc)
         idx1 == IndexAfterCopy(cacheIndex, NewEntry(r.cName, dst, now, r.cSize), copied)
     IN /\ cacheIndex' = idx1
        /\ IF copied
           THEN LET P1 == Detach(proc, cacheIndex, r.cName)
                IN /\ files' = [files EXCEPT ![dst] = files[r.cSrc]]
                   /\ proc' = [P1 EXCEPT ![p] =
                        SaveIssue([P1[p] EXCEPT !.pc = "cSave", !.registered = TRUE], idx1)]
           ELSE /\ proc' = [proc EXCEPT ![p] = Ret(CClear(r), ThrowRv)]
                /\ files' = files
  /\ UNCHANGED <<persisted, now, initialized, localPath, touched, checksum>>

\* manageCacheSize: the head of the loop (line 151) and the save after it.
MLoop(r, idx) ==
  IF OverCeiling(r.cur, r.sorted) THEN [r EXCEPT !.pc = "mUnlink"]
  ELSE SaveIssue([r EXCEPT !.pc = "mSave", !.sorted = <<>>, !.cur = 0, !.mStale = {}], idx)

\* manageCacheSize up to its first await (lines 142-152).
SweepEnter(r, idx) ==
  LET sorted == SortByLastUsed(idx)
  IN MLoop([r EXCEPT !.sorted = sorted, !.cur = SumSizes(sorted), !.sorted0 = sorted], idx)

\* the save of line 100 lands; manageCacheSize starts.
CSave(p) ==
  /\ proc[p].pc = "cSave"
  /\ persisted' = proc[p].snap
  /\ proc' = [proc EXCEPT ![p] = SweepEnter(proc[p], cacheIndex)]
  /\ UNCHANGED <<cacheIndex, files, now, initialized, localPath, touched, checksum>>

\* fs.unlink(oldestEntry.path) answers; lines 154-164, then the loop head.
MUnlink(p, ok) ==
  /\ proc[p].pc = "mUnlink"
  /\ LET r == proc[p]
         e == Head(r.sorted)
     IN IF Unlinks(files, e.path, ok)
        THEN LET idx1 == MapDelete(cacheIndex, e.name)
                 P1 == DeleteEffect(proc, cacheIndex, e.name)
                 r1 == [P1[p] EXCEPT !.sorted = Tail(r.sorted), !.cur = r.cur - e.size,
                                     !.mStale = @ \ {e.name}]
             IN /\ files' = [files EXCEPT ![e.path] = Absent]
                /\ cacheIndex' = idx1
                /\ proc' = [P1 EXCEPT ![p] = MLoop(r1, idx1)]
        ELSE /\ proc' = [proc EXCEPT ![p] =
                           MLoop([r EXCEPT !.sorted = Tail(r.sorted),
                                           !.mStale = @ \ {e.name}], cacheIndex)]
             /\ UNCHANGED <<files, cacheIndex, checksum>>
  /\ UNCHANGED <<persisted, now, initialized, localPath, touched, checksum>>

\* the save of line 166 lands; manageCacheSize returns: cacheModel returns
\* cachedModelPath, and a caller of the policy on its own goes on (to a
\* second run when it runs the policy twice in a row).
MSave(p) ==
  /\ proc[p].pc = "mSave"
  /\ persisted' = proc[p].snap
  /\ LET r == proc[p]
     IN proc' = [proc EXCEPT ![p] =
                   IF r.op = "evictTwice"
                   THEN SweepEnter([r EXCEPT !.op = "evictAgain"], cacheIndex)
                   ELSE IF r.op \in {"evict", "evictAgain"}
                   THEN Ret(CClear(r), NullRv)
                   ELSE Ret(CClear(r), PathRv(CachedPath(r.cName, r.cSrc)))]
  /\ touched' = NoName
  /\ UNCHANGED <<cacheIndex, files, now, initialized, localPath, checksum>>

\* clearCache: the for-of over cacheIndex.values() asks for its next entry;
\* when there is none, cacheIndex.clear() and the save is issued.
ClearNext(P, idx, p) ==
  LET r == P[p]
  IN IF r.xFrozen /\ r.xRest # <<>>
     THEN [P EXCEPT ![p] = [r EXCEPT !.pc = "xUnlink", !.xPath = Head(r.xRest),
                                     !.xRest = Tail(r.xRest)]]
     ELSE IF ~r.xFrozen /\ r.xPos < Len(idx)
     THEN [P EXCEPT ![p] = [r EXCEPT !.pc = "xUnlink", !.xPath = idx[r.xPos + 1].path,
                                     !.xPos = r.xPos + 1]]
     ELSE LET P1 == ClearEffect(P, idx)
          IN [P1 EXCEPT ![p] = SaveIssue([P1[p] EXCEPT !.pc = "xSave", !.xPath = NoPath], <<>>)]

ClearNextIndex_Keep(P, idx, p) == idx

ClearNextIndex(P, idx, p) ==
  IF (P[p].xFrozen /\ P[p].xRest # <<>>) \/ (~P[p].xFrozen /\ P[p].xPos < Len(idx))
  THEN idx ELSE <<>>

\* fs.unlink(entry.path) answers (a failure is swallowed); lines 172-180.
XUnlink(p, ok) ==
  /\ proc[p].pc = "xUnlink"
  /\ files' = IF Unlinks(files, proc[p].xPath, ok)
               THEN [files EXCEPT ![proc[p].xPath] = Absent] ELSE files
  /\ proc' = ClearNext([proc EXCEPT ![p].xFailed =
                                    @ \/ ~Unlinks(files, proc[p].xPath, ok)],
                        cacheIndex, p)
  /\ cacheIndex' = ClearNextIndex(proc, cacheIndex, p)
  /\ UNCHANGED <<persisted, now, initialized, localPath, touched, checksum>>

\* the save of line 180 lands; clearCache returns.
XSave(p) ==
  /\ proc[p].pc = "xSave"
  /\ persisted' = proc[p].snap
  /\ proc' = [proc EXCEPT ![p] = Ret(XClear(@), NullRv)]
  /\ touched' = NoName
  /\ UNCHANGED <<cacheIndex, files, now, initialized, localPath, checksum>>

\* ==================================================== ModelConfigManager
\* the descriptor a caller holds: the one in modelConfigs, or the object of
\* a modelConfigs array that a later getModelConfigs has replaced.
CfgPath(r) == IF r.cfgStale THEN r.cfgPath ELSE localPath[r.eName]
CfgChecksum(r) == IF r.cfgStale THEN r.cfgSum ELSE checksum[r.eName]

ChecksumMatches_Always(calculated, expected) == TRUE

\* return calculatedChecksum === expectedChecksum
ChecksumMatches(calculated, expected) == calculated = expected

VerifyModelChecksum_EmptyAccepts(fs, path, expected) ==
  IF Exists(fs, path) THEN expected = "" \/ Sha256Hex(fs[path]) = expected ELSE FALSE

\* verifyModelChecksum once fs.readFile has answered (lines 99-111): a
\* failed read is caught and answers false.
VerifyModelChecksum(fs, path, expected) ==
  IF Exists(fs, path) THEN ChecksumMatches(Sha256Hex(fs[path]), expected) ELSE FALSE

\* verifyModelChecksum up to its await (lines 97-99).
VerifyEnter(r, path, expected, label) ==
  [r EXCEPT !.pc = "vRead", !.stack = <<label>> \o @, !.vPath = path, !.vSum = expected]

\* fs.readFile(filePath) answers; verifyModelChecksum returns.
VRead(p) ==
  /\ proc[p].pc = "vRead"
  /\ LET r == proc[p]
     IN proc' = [proc EXCEPT ![p] =
                   Ret([r EXCEPT !.vPath = NoPath, !.vSum = ""],
                       BoolRv(VerifyModelChecksum(files, r.vPath, r.vSum)))]
  /\ UNCHANGED <<cacheIndex, persisted, files, now, initialized, localPath, checksum, touched>>

HasEnoughSpace_Always(available, requiredSpace) == TRUE

\* return available > requiredSpace
HasEnoughSpace(available, requiredSpace) == available > requiredSpace

ResponseOk_Always(o) == TRUE

\* fetch rejects on a network error or an abort; !response.ok throws.
ResponseOk(o) == o = "ok"
FetchRejects(o) == o \in {"neterr", "abort"}

CatchReturnsNull_Rethrow(v) == v

\* catch (error) { logger.error(...); return null; } of downloadModel
\* (lines 164-170) and of ensureModelAvailable (lines 226-232).
CatchReturnsNull(v) == IF v = ThrowRv THEN NullRv ELSE v

EClear(r) == [r EXCEPT !.eName = NoName, !.cfgStale = FALSE, !.cfgPath = NoPath,
                       !.cfgSum = "", !.ePath = NoPath, !.dSize = 0]

\* history only: the call starts with nothing cached, in memory or in
\* cache-index.json, and no file at the descriptor's localPath.
Fresh(idx, t) ==
  idx = <<>> /\ persisted = <<>> /\ ~Exists(files, localPath[ConfigOfType(t)])

\* ensureModelAvailable once getModelConfigs has answered (lines 176-184).
EnsureLookup(r, idx, t) ==
  GetEnter([r EXCEPT !.eName = ConfigOfType(t), !.avail = NoAvail,
                     !.fetchFailed = FALSE, !.registered = FALSE,
                     !.fresh = Fresh(idx, t), !.localFound = FALSE],
           idx, ConfigOfType(t), "eLookup")

\* ensureModelAvailable up to its first await (line 175).
EnsureEnter(r, idx, t, label) ==
  LET r1 == [r EXCEPT !.stack = <<label>> \o @, !.arg = ConfigOfType(t)]
  IN IF initialized THEN EnsureLookup(r1, idx, t) ELSE [r1 EXCEPT !.pc = "iLoad"]

\* downloadModel up to its first I/O (lines 117-127).
DownloadEnter(r, idx, available) ==
  LET r1 == [r EXCEPT !.avail = available]
  IN IF HasEnoughSpace(available, RequiredDiskSpace(r.eName))
     THEN GetEnter(r1, idx, r.eName, "dLookup")
     ELSE [r1 EXCEPT !.pc = "eDownloaded", !.rv = NullRv]

\* getModelConfigs: initializeModelDirectory is through (loadCacheIndex has
\* read cache-index.json) and modelConfigs is built anew (lines 70-94).
ILoad(p) ==
  /\ proc[p].pc = "iLoad"
  /\ initialized' = TRUE
  /\ localPath' = [n \in CatalogNames |-> LocalPath0(n)]
  /\ checksum' = [n \in CatalogNames |-> Checksum(n)]
  /\ cacheIndex' = LoadCacheIndex(StringifyIndex(persisted))
  /\ LET P1 == MapReplaced(proc, cacheIndex)
         P2 == [q \in Callers |->
                 LET r == P1[q]
                     holds == r.eName # NoName /\ ~r.cfgStale
                 IN [r EXCEPT !.cfgStale = IF holds THEN TRUE ELSE @,
                              !.cfgPath = IF holds THEN localPath[r.eName] ELSE @,
                              !.cfgSum = IF holds THEN checksum[r.eName] ELSE @]]
         r == IF P2[p].op = "downloadModels" /\ P2[p].daI = 0
              THEN [P2[p] EXCEPT !.daI = 1, !.daCalled = {P2[p].arg}]
              ELSE P2[p]
     IN proc' = [P2 EXCEPT ![p] =
                   EnsureLookup(r, persisted, IF r.arg = "whisper-small"
                                              THEN "transcription" ELSE "summarization")]
  /\ UNCHANGED <<persisted, files, now, touched>>

\* getModelFromCache has answered (lines 184-192).
ELookup(p) ==
  /\ proc[p].pc = "eLookup"
  /\ LET r == proc[p]
     IN IF r.rv.k = "path"
        THEN /\ localPath' = IF r.cfgStale THEN localPath
                             ELSE [localPath EXCEPT ![r.eName] = r.rv.p]
             /\ proc' = [proc EXCEPT ![p] = Ret(EClear(r), ConfigRv(r.rv.p))]
        ELSE /\ localPath' = localPath
             /\ proc' = [proc EXCEPT ![p] = [r EXCEPT !.pc = "eAccess", !.rv = NoRv,
                                                      !.ePath = CfgPath(r)]]
  /\ UNCHANGED <<cacheIndex, persisted, files, now, initialized, touched, checksum>>

\* fs.access(modelConfig.localPath) answers (lines 192-217); a descriptor
\* with an empty checksum skips the verification (line 195). localFound
\* is history only.
EAccess(p) ==
  /\ proc[p].pc = "eAccess"
  /\ LET r == [proc[p] EXCEPT !.ePath = NoPath,
                              !.localFound = Exists(files, proc[p].ePath)]
     IN IF Exists(files, proc[p].ePath)
        THEN proc' = [proc EXCEPT ![p] =
                        IF CfgChecksum(r) # ""
                        THEN VerifyEnter(r, CfgPath(r), CfgChecksum(r), "eVerified")
                        ELSE CacheEnter(r, r.eName, CfgPath(r), "eCached")]
        ELSE \E available \in AvailableSpace :
               proc' = [proc EXCEPT ![p] = DownloadEnter(r, cacheIndex, available)]
  /\ UNCHANGED <<cacheIndex, persisted, files, now, initialized, localPath, touched, checksum>>

\* verifyModelChecksum of line 196 has answered (lines 196-214).
EVerified(p) ==
  /\ proc[p].pc = "eVerified"
  /\ LET r == [proc[p] EXCEPT !.rv = NoRv]
     IN proc' = [proc EXCEPT ![p] =
                   IF proc[p].rv.k = "true"
                   THEN CacheEnter(r, r.eName, CfgPath(r), "eCached")
                   ELSE Ret(EClear(r), NullRv)]
  /\ UNCHANGED <<cacheIndex, persisted, files, now, initialized, localPath, checksum, touched>>

\* cacheModel of line 210 has answered or thrown (lines 210-217).
ECached(p) ==
  /\ proc[p].pc = "eCached"
  /\ LET r == [proc[p] EXCEPT !.rv = NoRv]
     IN IF proc[p].rv.k = "path"
        THEN proc' = [proc EXCEPT ![p] = Ret(EClear(r), ConfigRv(CfgPath(r)))]
        ELSE \E available \in AvailableSpace :
               proc' = [proc EXCEPT ![p] = DownloadEnter(r, cacheIndex, available)]
  /\ UNCHANGED <<cacheIndex, persisted, files, now, initialized, localPath, touched, checksum>>

\* getModelFromCache of line 127 has answered; fetch is issued (lines 128-142).
DLookup(p) ==
  /\ proc[p].pc = "dLookup"
  /\ LET r == proc[p]
     IN proc' = [proc EXCEPT ![p] =
                   IF r.rv.k = "path" THEN [r EXCEPT !.pc = "eDownloaded"]
                   ELSE [r EXCEPT !.pc = "dFetch", !.rv = NoRv]]
  /\ UNCHANGED <<cacheIndex, persisted, files, now, initialized, localPath, touched, checksum>>

\* fetch and response.arrayBuffer() answer; fs.writeFile opens
\* config.localPath (lines 142-151, 160-169).
DFetch(p) ==
  /\ proc[p].pc = "dFetch"
  /\ \E o \in FetchOutcomes, size \in {ArtifactSize(proc[p].eName), MaxCacheSize + 1} :
       LET r == proc[p]
       IN IF FetchRejects(o) \/ ~ResponseOk(o)
          THEN /\ proc' = [proc EXCEPT ![p] = [r EXCEPT !.pc = "eDownloaded",
                                                        !.rv = CatchReturnsNull(ThrowRv),
                                                        !.fetchFailed = o # "ok"]]
               /\ files' = files
          ELSE /\ proc' = [proc EXCEPT ![p] = [r EXCEPT !.pc = "dWrite", !.ePath = CfgPath(r),
                                                        !.dSize = size,
                                                        !.fetchFailed = o # "ok"]]
               /\ files' = [files EXCEPT ![CfgPath(r)] = [st |-> "partial", size |-> 0]]
  /\ UNCHANGED <<cacheIndex, persisted, now, initialized, localPath, touched, checksum>>

\* fs.writeFile has written the whole body; cacheModel is called (151-159).
DWrite(p) ==
  /\ proc[p].pc = "dWrite"
  /\ LET r == proc[p]
     IN /\ files' = [files EXCEPT ![r.ePath] = [st |-> "complete", size |-> r.dSize]]
        /\ proc' = [proc EXCEPT ![p] =
                      CacheEnter([r EXCEPT !.ePath = NoPath, !.dSize = 0],
                                 r.eName, CfgPath(r), "dCached")]
  /\ UNCHANGED <<cacheIndex, persisted, now, initialized, localPath, touched, checksum>>

\* cacheModel of line 155 has answered or thrown (lines 155-170).
DCached(p) ==
  /\ proc[p].pc = "dCached"
  /\ proc' = [proc EXCEPT ![p] =
                [@ EXCEPT !.pc = "eDownloaded",
                          !.rv = CatchReturnsNull(@)]]
  /\ UNCHANGED <<cacheIndex, persisted, files, now, initialized, localPath, touched, checksum>>

\* downloadModel has answered (lines 217-225).
EDownloaded(p) ==
  /\ proc[p].pc = "eDownloaded"
  /\ LET r == proc[p]
     IN IF r.rv.k = "path"
        THEN /\ localPath' = IF r.cfgStale THEN localPath
                             ELSE [localPath EXCEPT ![r.eName] = r.rv.p]
             /\ proc' = [proc EXCEPT ![p] = Ret(EClear(r), ConfigRv(r.rv.p))]
        ELSE /\ localPath' = localPath
             /\ proc' = [proc EXCEPT ![p] = Ret(EClear(r), CatchReturnsNull(r.rv))]
  /\ UNCHANGED <<cacheIndex, persisted, files, now, initialized, touched, checksum>>

\* ------------------------------------------------- calls of the orchestrator
CallEnsure(p, t) ==
  /\ proc[p].pc = "idle"
  /\ proc' = [proc EXCEPT ![p] =
                EnsureEnter([@ EXCEPT !.op = "ensure"], cacheIndex, t, "done")]
  /\ UNCHANGED <<cacheIndex, persisted, files, now, initialized, localPath, touched, checksum>>

LoopContinues_OnlyOnSuccess(v) == v.k = "config"

\* the loop of downloadModels discards what ensureModelAvailable resolves
\* with; only a rejection leaves it, through the catch (lines 188-198).
LoopContinues(v) == v # ThrowRv

\* one turn of the loop: ensureModelAvailable(config.type) is called
\* (line 189). daCalled and daFailed are history only.
DownloadNext(r, idx, i) ==
  EnsureEnter([r EXCEPT !.daI = i,
                        !.daCalled = @ \cup {ConfigOfType(CatalogOrder[i])}],
              idx, CatalogOrder[i], "daNext")

\* MLModelManager.downloadModels up to its first await (lines 184-186):
\* getModelConfigs answers at once when modelConfigs is built, and the
\* loop starts; otherwise the directory is initialized first.
CallDownloadModels(p) ==
  /\ proc[p].pc = "idle"
  /\ LET r == [proc[p] EXCEPT !.op = "downloadModels", !.stack = <<"done">>]
     IN proc' = [proc EXCEPT ![p] =
                   IF initialized
                   THEN DownloadNext(r, cacheIndex, 1)
                   ELSE [r EXCEPT !.pc = "iLoad", !.stack = <<"daNext">> \o @,
                                  !.arg = ConfigOfType(CatalogOrder[1])]]
  /\ UNCHANGED <<cacheIndex, persisted, files, now, initialized, localPath, touched, checksum>>

\* ensureModelAvailable of line 189 has answered: the next turn of the
\* loop, or the end of downloadModels (lines 188-198).
DaNext(p) ==
  /\ proc[p].pc = "daNext"
  /\ LET v == proc[p].rv
         r == [proc[p] EXCEPT !.rv = NoRv,
                              !.daFailed = IF v.k = "config" THEN @ ELSE @ \cup {proc[p].arg}]
     IN proc' = [proc EXCEPT ![p] =
                   IF ~LoopContinues(v) THEN Ret(r, ThrowRv)
                   ELSE IF r.daI < Len(CatalogOrder)
                        THEN DownloadNext(r, cacheIndex, r.daI + 1)
                        ELSE Ret(r, NullRv)]
  /\ UNCHANGED <<cacheIndex, persisted, files, now, initialized, localPath, touched, checksum>>

\* ml-models.ts imports modelConfigManager only (lines 1-4): the name
\* modelCacheManager of line 204 is bound to nothing in that module.
CacheManagerImported == FALSE

\* MLModelManager.clearModelCache (lines 201-211): evaluating the unbound
\* name throws a ReferenceError inside the try; the catch logs it and the
\* method returns.
CallClearModelCache(p) ==
  /\ proc[p].pc = "idle"
  /\ LET P0 == [proc EXCEPT ![p] = [@ EXCEPT !.op = "clearModelCache", !.stack = <<"done">>]]
     IN IF CacheManagerImported
        THEN /\ proc' = ClearNext(P0, cacheIndex, p)
             /\ cacheIndex' = ClearNextIndex(P0, cacheIndex, p)
        ELSE /\ proc' = [P0 EXCEPT ![p] = Ret(@, NullRv)]
             /\ cacheIndex' = cacheIndex
  /\ UNCHANGED <<persisted, files, now, initialized, localPath, touched, checksum>>

\* verifyModelChecksum called on its own (it is public).
CallVerifyModelChecksum(p, path, expected) ==
  /\ proc[p].pc = "idle"
  /\ proc' = [proc EXCEPT ![p] =
                VerifyEnter([@ EXCEPT !.op = "verify"], path, expected, "done")]
  /\ UNCHANGED <<cacheIndex, persisted, files, now, initialized, localPath, checksum, touched>>

\* a holder of a descriptor (getModelConfigs hands out the objects of
\* modelConfigs) fills in its checksum.
SetChecksum(n, d) ==
  /\ initialized
  /\ checksum' = [checksum EXCEPT ![n] = d]
  /\ UNCHANGED <<cacheIndex, persisted, files, now, initialized, localPath, proc, touched>>

\* ------------------------------------------- direct calls of the cache API
CallCacheModel(p, n) ==
  /\ proc[p].pc = "idle"
  /\ proc' = [proc EXCEPT ![p] =
                CacheEnter([@ EXCEPT !.op = "cacheModel", !.arg = n], n, LocalPath0(n), "done")]
  /\ UNCHANGED <<cacheIndex, persisted, files, now, initialized, localPath, touched, checksum>>

CallGetModelFromCache(p, n) ==
  /\ proc[p].pc = "idle"
  /\ proc' = [proc EXCEPT ![p] =
                GetEnter([@ EXCEPT !.op = "lookup", !.arg = n], cacheIndex, n, "done")]
  /\ UNCHANGED <<cacheIndex, persisted, files, now, initialized, localPath, touched, checksum>>

\* the eviction policy run on its own, once or twice in a row.
CallManageCacheSize(p, twice) ==
  /\ proc[p].pc = "idle"
  /\ proc' = [proc EXCEPT ![p] =
                SweepEnter([@ EXCEPT !.op = IF twice THEN "evictTwice" ELSE "evict",
                                     !.stack = <<"done">>], cacheIndex)]
  /\ UNCHANGED <<cacheIndex, persisted, files, now, initialized, localPath, touched, checksum>>

CallClearCache(p) ==
  /\ proc[p].pc = "idle"
  /\ LET P0 == [proc EXCEPT ![p] = [@ EXCEPT !.op = "clearCache", !.stack = <<"done">>]]
     IN /\ proc' = ClearNext(P0, cacheIndex, p)
        /\ cacheIndex' = ClearNextIndex(P0, cacheIndex, p)
  /\ UNCHANGED <<persisted, files, now, initialized, localPath, touched, checksum>>

\* the caller has its result and goes on to something else.
Finish(p) ==
  /\ proc[p].pc = "done"
  /\ proc' = [proc EXCEPT ![p] = Idle]
  /\ UNCHANGED <<cacheIndex, persisted, files, now, initialized, localPath, touched, checksum>>

\* ------------------------------------------------------------ environment
\* the clock moves on by a period of days; no call lasts that long.
Tick ==
  /\ \A p \in Callers : proc[p].pc = "idle"
  /\ now < MaxClock
  /\ now' = now + 1
  /\ UNCHANGED <<cacheIndex, persisted, files, initialized, localPath, proc, touched, checksum>>

\* a model file is put at a model's local path by hand.
PlaceFile(n) ==
  /\ files' = [files EXCEPT ![LocalPath0(n)] = [st |-> "complete", size |-> ArtifactSize(n)]]
  /\ UNCHANGED <<cacheIndex, persisted, now, initialized, localPath, proc, touched, checksum>>

\* a file is deleted out-of-band.
RemoveFile(path) ==
  /\ Exists(files, path)
  /\ files' = [files EXCEPT ![path] = Absent]
  /\ UNCHANGED <<cacheIndex, persisted, now, initialized, localPath, proc, touched, checksum>>

\* the same, while no call is under way.
RemoveFileIdle(path) ==
  /\ \A p \in Callers : proc[p].pc = "idle"
  /\ RemoveFile(path)

Init ==
  /\ cacheIndex = <<>>
  /\ persisted = <<>>
  /\ files = [p \in Paths |-> Absent]
  /\ now = 0
  /\ initialized = FALSE
  /\ localPath = [n \in CatalogNames |-> LocalPath0(n)]
  /\ checksum = [n \in CatalogNames |-> Checksum(n)]
  /\ proc = [p \in Callers |-> Idle]
  /\ touched = NoName

\* ---------------- loadCacheIndex over what cache-index.json may hold
MaxItems == 2
LoadNames == {"whisper-small", "aux-model"}
LoadVals(n) ==
  {OtherVal(Undefined), OtherVal("null"), OtherVal("object"),
   EntryVal(NewEntry(n, CachedPath(n, LocalPath0(n)), 0, ArtifactSize(n)))}
LoadItems ==
  {PrimItem, ObjItem, ArrItem(Undefined, OtherVal(Undefined))}
  \cup {ArrItem(n, v) : n \in LoadNames, v \in UNION {LoadVals(m) : m \in LoadNames}}
IndexFileContents ==
  {OtherFile(k) : k \in {"missing", "unreadable", "text", "null", "number", "string", "object"}}
  \cup {ArrayFile(items) : items \in UNION {[1..n -> LoadItems] : n \in 0..MaxItems}}

\* a proper list of (name, entry) pairs.
WellFormed(c) ==
  /\ c.k = "arr"
  /\ \A i \in 1..Len(c.items) :
       /\ c.items[i].t = "arr"
       /\ c.items[i].key # Undefined
       /\ c.items[i].val.v = "entry"

InitLoad ==
  /\ cacheIndex = <<>>
  /\ persisted \in IndexFileContents
  /\ files = [p \in Paths |-> Absent]
  /\ now = 0
  /\ initialized = FALSE
  /\ localPath = [n \in CatalogNames |-> LocalPath0(n)]
  /\ checksum = [n \in CatalogNames |-> Checksum(n)]
  /\ proc = [p \in Callers |-> Idle]
  /\ touched = NoName

NextLoad ==
  \/ CallInitializeCacheDirectory(1)
  \/ LRead(1)
  \/ Finish(1)

SpecLoad == InitLoad /\ [][NextLoad]_vars

\* ------------------------- one caller using the cache manager on its own
\* (the catalog's artifacts stay where they were put; the file behind the
\* third name is a scratch file that may go at any moment; cached copies
\* are deleted out-of-band between calls)
CacheNames == Names
ScratchName == "aux-model"
NextCache ==
  \/ \E n \in CacheNames : CallCacheModel(1, n)
  \/ \E n \in CacheNames : CallGetModelFromCache(1, n)
  \/ CallClearCache(1)
  \/ \E twice \in BOOLEAN : CallManageCacheSize(1, twice)
  \/ GStat(1) \/ GSaveHit(1) \/ GSaveMiss(1)
  \/ CStat(1) \/ CCopy(1) \/ CSave(1) \/ MSave(1)
  \/ \E ok \in BOOLEAN : MUnlink(1, ok)
  \/ \E ok \in BOOLEAN : XUnlink(1, ok)
  \/ XSave(1)
  \/ Finish(1)
  \/ Tick
  \/ \E n \in CacheNames : PlaceFile(n)
  \/ RemoveFile(LocalPath0(ScratchName))
  \/ \E path \in {q \in Paths : q.d > 0} : RemoveFileIdle(path)

SpecCache == Init /\ [][NextCache]_vars

\* ------------------------ concurrent callers of the cache manager's API
\* (lookups, insertions with their sweeps, and clears interleave at the
\* awaits; the artifacts stay where they were put)
RaceNames == CatalogNames
NextRace ==
  \/ \E p \in Callers, n \in RaceNames : CallCacheModel(p, n)
  \/ \E p \in Callers, n \in RaceNames : CallGetModelFromCache(p, n)
  \/ \E p \in Callers : CallClearCache(p)
  \/ \E p \in Callers : GStat(p) \/ GSaveHit(p) \/ GSaveMiss(p)
  \/ \E p \in Callers : CStat(p) \/ CCopy(p) \/ CSave(p) \/ MSave(p)
  \/ \E p \in Callers, ok \in BOOLEAN : MUnlink(p, ok)
  \/ \E p \in Callers, ok \in BOOLEAN : XUnlink(p, ok)
  \/ \E p \in Callers : XSave(p)
  \/ \E p \in Callers : Finish(p)
  \/ Tick
  \/ \E n \in RaceNames : PlaceFile(n)

SpecRace == Init /\ [][NextRace]_vars

\* ------------------------------ the orchestrator's steps of one caller
\* A cached copy can itself become the source of a later cacheModel (the
\* descriptor's localPath is set to the cached path), and each copy has a
\* longer name. A specification follows that chain to a depth: a
\* cacheModel whose source is at the depth goes no further.
WithinDepth(p, depth) == proc[p].pc = "cStat" => proc[p].cSrc.d < depth

CacheStep(p) ==
  /\ WithinDepth(p, MaxDepth)
  /\ \/ GStat(p) \/ GSaveHit(p) \/ GSaveMiss(p)
     \/ CStat(p) \/ CCopy(p) \/ CSave(p) \/ MSave(p)
     \/ \E ok \in BOOLEAN : MUnlink(p, ok)

EnsureStep(p) ==
  \/ ILoad(p) \/ ELookup(p) \/ EAccess(p) \/ ECached(p)
  \/ DLookup(p) \/ DFetch(p) \/ DWrite(p) \/ DCached(p) \/ EDownloaded(p)

VerifyStep(p) == VRead(p) \/ EVerified(p)

\* ----------------------- one caller of the orchestrator, nothing deleted
\* behind the program's back
NextSeq ==
  \/ \E t \in ModelTypes : CallEnsure(1, t)
  \/ CallClearModelCache(1)
  \/ CacheStep(1)
  \/ EnsureStep(1)
  \/ Finish(1)
  \/ Tick
  \/ \E n \in CatalogNames : PlaceFile(n)
  \/ \E path \in Paths : RemoveFileIdle(path)

SpecSeq == Init /\ [][NextSeq]_vars

\* ------------------------------ one caller preloading the whole catalog
NextPreload ==
  \/ CallDownloadModels(1)
  \/ DaNext(1)
  \/ CacheStep(1)
  \/ EnsureStep(1)
  \/ Finish(1)
  \/ Tick
  \/ \E n \in CatalogNames : PlaceFile(n)
  \/ \E path \in Paths : RemoveFileIdle(path)

SpecPreload == Init /\ [][NextPreload]_vars

\* ------- one caller after one model through the orchestrator and the cache
\* manager, every fs.unlink succeeding, no file removed out-of-band; the
\* chain of re-cached paths is followed one level further
TidyTypes == {"transcription"}
NextTidy ==
  \/ \E t \in TidyTypes : CallEnsure(1, t)
  \/ \E t \in TidyTypes : CallGetModelFromCache(1, ConfigOfType(t))
  \/ \E t \in TidyTypes : CallCacheModel(1, ConfigOfType(t))
  \/ CallManageCacheSize(1, FALSE)
  \/ CallClearCache(1)
  \/ /\ WithinDepth(1, MaxDepth + 1)
     /\ \/ GStat(1) \/ GSaveHit(1) \/ GSaveMiss(1)
        \/ CStat(1) \/ CCopy(1) \/ CSave(1) \/ MSave(1)
        \/ MUnlink(1, TRUE)
  \/ XUnlink(1, TRUE)
  \/ XSave(1)
  \/ EnsureStep(1)
  \/ Finish(1)
  \/ Tick
  \/ \E t \in TidyTypes : PlaceFile(ConfigOfType(t))

SpecTidy == Init /\ [][NextTidy]_vars

\* ------------------------------------- concurrent callers of the orchestrator
\* (the callers race for one model)
ConcurrentTypes == {"transcription"}
Next ==
  \/ \E p \in Callers, t \in ConcurrentTypes : CallEnsure(p, t)
  \/ \E p \in Callers : CacheStep(p)
  \/ \E p \in Callers : EnsureStep(p)
  \/ \E p \in Callers : Finish(p)
  \/ Tick
  \/ \E t \in ConcurrentTypes : PlaceFile(ConfigOfType(t))

Spec == Init /\ [][Next]_vars

\* ------------- one caller of the orchestrator after one model, and files
\* that are deleted out-of-band at any moment, also while a call is under way
FaultTypes == {"transcription"}
NextFault ==
  \/ \E t \in FaultTypes : CallEnsure(1, t)
  \/ \E t \in FaultTypes, d \in DeclaredChecksums \cup {""} :
       \/ SetChecksum(ConfigOfType(t), d)
       \/ CallVerifyModelChecksum(1, LocalPath0(ConfigOfType(t)), d)
  \/ CacheStep(1)
  \/ EnsureStep(1)
  \/ VerifyStep(1)
  \/ Finish(1)
  \/ Tick
  \/ \E t \in FaultTypes : PlaceFile(ConfigOfType(t))
  \/ \E path \in Paths : RemoveFile(path)

SpecFault == Init /\ [][NextFault]_vars

\* ================================================================ claims
\* C1: a call whose fetch fails (network error, non-success status, abort)
\* registers no cache entry: it has done no cacheIndex.set, no step of it
\* from the failure on changes the index, and it returns absence.
C1_FailedDownloadRegistersNothing ==
  [][\A p \in Callers :
       proc'[p].fetchFailed =>
         /\ ~proc'[p].registered
         /\ cacheIndex' = cacheIndex
         /\ proc'[p].pc \in {"eDownloaded", "done"}
         /\ proc'[p].rv = NullRv]_vars

C1_Witness ==
  \E p \in Callers :
    /\ proc[p].op = "ensure" /\ proc[p].pc = "done"
    /\ proc[p].fetchFailed /\ proc[p].rv = NullRv

C3_IndexNeverReferencesPartial ==
  \A i \in 1..Len(cacheIndex) : files[cacheIndex[i].path].st # "partial"

\* C4: when ensureModelAvailable returns a descriptor, the file at its
\* localPath exists at that moment.
C4_ReadyPathExists ==
  \A p \in Callers :
    (proc[p].op = "ensure" /\ proc[p].pc = "done" /\ proc[p].rv.k = "config") =>
      Exists(files, proc[p].rv.p)

\* the least number of oldest entries of s to drop for the rest to fit.
ShortestPrefix(s) ==
  LET fits(k) == SumSizes(SubSeq(s, k + 1, Len(s))) <= MaxCacheSize
  IN CHOOSE k \in 0..Len(s) : fits(k) /\ \A j \in 0..(k - 1) : ~fits(j)

\* C5: when the eviction sweep of an insertion ends, the entries it has
\* removed are exactly the shortest prefix, by lastUsed ascending, that
\* brings the total to the ceiling or under, and no entry is gone while an
\* entry with a smaller lastUsed is kept.
C5_EvictsShortestOldestPrefix ==
  \A p \in Callers :
    proc[p].pc = "mSave" =>
      LET s == proc[p].sorted0
          k == ShortestPrefix(s)
      IN /\ IndexNames(cacheIndex) = {s[i].name : i \in (k + 1)..Len(s)}
         /\ \A i, j \in 1..Len(s) :
              (~Has(cacheIndex, s[i].name) /\ Has(cacheIndex, s[j].name))
                => s[j].lastUsed >= s[i].lastUsed

\* C6: when cacheModel has returned, the sizes in the index sum to the
\* ceiling at most, or the index is empty.
C6_TotalWithinCeilingAfterInsert ==
  \A p \in Callers :
    (proc[p].op = "cacheModel" /\ proc[p].pc = "done" /\ proc[p].rv.k = "path") =>
      (SumSizes(cacheIndex) <= MaxCacheSize \/ cacheIndex = <<>>)

\* C7: a lookup that finds the file of an entry older than the maximum age
\* answers absent and leaves the index, lastUsed included, as it was.
C7_ExpiredEntryIsAMiss ==
  [][\A p \in Callers :
       (/\ proc[p].pc = "gStat" /\ proc'[p].pc # "gStat"
        /\ proc[p].gLive
        /\ Exists(files, proc[p].gPath)
        /\ now - Get(cacheIndex, proc[p].gName).lastUsed > MaxModelAge)
       => /\ proc'[p].rv = NullRv
          /\ proc'[p].pc = Head(proc[p].stack)
          /\ cacheIndex' = cacheIndex]_vars

C7_Witness ==
  \E p \in Callers :
    /\ proc[p].op = "lookup" /\ proc[p].pc = "done" /\ proc[p].rv = NullRv
    /\ Has(cacheIndex, proc[p].arg)
    /\ Exists(files, Get(cacheIndex, proc[p].arg).path)
    /\ now - Get(cacheIndex, proc[p].arg).lastUsed > MaxModelAge
    /\ SumSizes(cacheIndex) <= MaxCacheSize

\* C8: a lookup that finds the file of an entry older than the maximum age
\* takes the entry out of the index.
C8_ExpiredEntryIsPurged ==
  [][\A p \in Callers :
       (/\ proc[p].pc = "gStat" /\ proc'[p].pc # "gStat"
        /\ proc[p].gLive
        /\ Exists(files, proc[p].gPath)
        /\ now - Get(cacheIndex, proc[p].gName).lastUsed > MaxModelAge)
       => ~Has(cacheIndex', proc[p].gName)]_vars

\* C9: a lookup that finds the cached file gone takes the entry out of the
\* index at once and issues the save of the index without it; when that
\* save has landed the lookup answers absent.
C9_MissingFileSelfHealing ==
  [][\A p \in Callers :
       /\ (/\ proc[p].pc = "gStat" /\ proc'[p].pc # "gStat"
           /\ ~Exists(files, proc[p].gPath))
          => /\ proc'[p].pc = "gSaveMiss"
             /\ ~Has(cacheIndex', proc[p].gName)
             /\ ~Has(proc'[p].snap, proc[p].gName)
       /\ (proc[p].pc = "gSaveMiss" /\ proc'[p].pc # "gSaveMiss")
          => /\ proc'[p].rv = NullRv
             /\ proc'[p].pc = Head(proc[p].stack)
             /\ ~Has(persisted', proc[p].gName)
             /\ ~Has(cacheIndex', proc[p].gName)]_vars

C9_Witness ==
  \E p \in Callers :
    /\ proc[p].op = "lookup" /\ proc[p].pc = "gSaveMiss"
    /\ ~Exists(files, proc[p].gPath)
    /\ Has(persisted, proc[p].gName)
    /\ ~Has(cacheIndex, proc[p].gName)

\* C11: a run of the eviction policy that directly follows another run
\* leaves the index as the first run left it, and a run that starts with
\* the total at the ceiling or under it removes no entry.
C11_EvictionIdempotent ==
  \A p \in Callers :
    (/\ proc[p].pc = "mSave"
     /\ \/ proc[p].op = "evictAgain"
        \/ SumSizes(proc[p].sorted0) <= MaxCacheSize)
    => IndexNames(cacheIndex) = {proc[p].sorted0[i].name : i \in 1..Len(proc[p].sorted0)}

\* C10: an entry that was first in line for eviction and then got a cache
\* hit is not evicted by the next insertion's sweep while an entry that is
\* now older than it stays in the index.
C10_TouchedEntryOutlivesOlder ==
  [][\A p \in Callers :
       (/\ proc[p].pc = "mUnlink"
        /\ touched # NoName
        /\ Has(cacheIndex, touched) /\ ~Has(cacheIndex', touched))
       => \A i \in 1..Len(cacheIndex') :
            cacheIndex'[i].lastUsed >= Get(cacheIndex, touched).lastUsed]_vars

\* C12: when MLModelManager.clearModelCache has returned, the index is empty
\* in memory and in cache-index.json and no file that was cached is left.
C12_ClearModelCacheEmptiesCache ==
  \A p \in Callers :
    (proc[p].op = "clearModelCache" /\ proc[p].pc = "done") =>
      /\ cacheIndex = <<>>
      /\ persisted = <<>>
      /\ \A q \in Paths : q.d > 0 => ~Exists(files, q)

\* C13: clearCache returns without raising and with the in-memory index
\* empty, whether or not its deletions of cached files were refused.
C13_ClearToleratesUnlinkFailure ==
  \A p \in Callers :
    (proc[p].op = "clearCache" /\ proc[p].pc = "done") =>
      /\ proc[p].rv = NullRv
      /\ cacheIndex = <<>>

C13_Witness ==
  \E p \in Callers :
    /\ proc[p].op = "clearCache" /\ proc[p].pc = "done" /\ proc[p].rv = NullRv
    /\ proc[p].xFailed
    /\ \E q \in Paths : q.d > 0 /\ Exists(files, q)
    /\ cacheIndex = <<>>

\* C14: the localPath of every descriptor of the catalog stays the one the
\* catalog was built with, and so do the path a call checks with fs.access
\* and the path a download writes to.
C14_DescriptorsImmutable ==
  /\ \A n \in CatalogNames : localPath[n] = LocalPath0(n)
  /\ \A p \in Callers :
       proc[p].pc \in {"eAccess", "dWrite"} => proc[p].ePath = LocalPath0(proc[p].eName)

\* C15: whenever no call is under way, cache-index.json holds the
\* in-memory index.
C15_PersistedKeepsUpWithMemory ==
  (\A p \in Callers : proc[p].pc \in {"idle", "done"}) => persisted = cacheIndex

\* C16: a call of ensureModelAvailable that has returned has returned a
\* descriptor or null, never a thrown error, also when cacheModel threw or
\* the download failed inside it; and a call under way always has a next
\* step (short of the bound on the depth of paths).
C16_EnsureNeverThrows ==
  \A p \in Callers :
    proc[p].op = "ensure" =>
      /\ proc[p].pc = "done" => proc[p].rv.k \in {"config", "null"}
      /\ proc[p].pc # "done" =>
           \/ ENABLED (CacheStep(p) \/ EnsureStep(p) \/ VerifyStep(p))
           \/ proc[p].pc = "cStat" /\ proc[p].cSrc.d >= MaxDepth

C16_Witness ==
  \E p \in Callers :
    /\ proc[p].op = "ensure" /\ proc[p].pc = "eCached"
    /\ proc[p].rv = ThrowRv

C18_FreshAcquisition ==
  \A p \in Callers :
    (/\ proc[p].op = "ensure" /\ proc[p].pc = "done"
     /\ proc[p].fresh /\ proc[p].registered
     /\ proc[p].avail # NoAvail /\ ~proc[p].fetchFailed)
    => /\ proc[p].rv = ConfigRv(CachedPath(proc[p].arg, LocalPath0(proc[p].arg)))
       /\ localPath[proc[p].arg] = proc[p].rv.p
       /\ Exists(files, proc[p].rv.p)
       /\ IndexNames(cacheIndex) = {proc[p].arg}
       /\ Len(cacheIndex) = 1

\* C19: verifyModelChecksum answers true or false and never throws; it
\* answers true only for a readable file whose SHA-256 hex digest equals
\* the expected one, and false for an empty expected digest, a differing
\* content or a failed read; it changes nothing. ensureModelAvailable
\* goes on to cacheModel without verifying when the descriptor's checksum
\* is empty.
C19_VerifyContract ==
  [][\A p \in Callers :
       /\ (proc[p].pc = "vRead" /\ proc'[p].pc # "vRead") =>
            LET readable == Exists(files, proc[p].vPath)
                digest == Sha256Hex(files[proc[p].vPath])
                answer == proc'[p].rv
            IN /\ answer \in {BoolRv(TRUE), BoolRv(FALSE)}
               /\ answer = BoolRv(TRUE) => readable /\ digest = proc[p].vSum
               /\ proc[p].vSum = "" => answer = BoolRv(FALSE)
               /\ ~readable => answer = BoolRv(FALSE)
               /\ (readable /\ digest # proc[p].vSum) => answer = BoolRv(FALSE)
               /\ UNCHANGED <<cacheIndex, persisted, files, localPath>>
       /\ (/\ proc[p].pc = "eAccess" /\ proc'[p].pc # "eAccess"
           /\ Exists(files, proc[p].ePath) /\ CfgChecksum(proc[p]) = "")
          => proc'[p].pc = "cStat" /\ proc'[p].cSrc = CfgPath(proc[p])
    ]_vars

\* a direct call has answered true: the file at the path is complete and
\* its digest is the expected one.
C19_Witness ==
  \E p \in Callers :
    /\ proc[p].op = "verify" /\ proc[p].pc = "done"
    /\ proc[p].rv = BoolRv(TRUE)
    /\ \E path \in Paths : Exists(files, path) /\ Sha256Hex(files[path]) \in DeclaredChecksums

\* C20: a downloadModels call that has ended has called
\* ensureModelAvailable for every descriptor of the catalog, whatever the
\* calls for the earlier descriptors answered, and it ends normally.
C20_PreloadCallsEveryDescriptor ==
  \A p \in Callers :
    (proc[p].op = "downloadModels" /\ proc[p].pc = "done")
    => /\ proc[p].daCalled = CatalogNames
       /\ proc[p].daI = Len(CatalogOrder)
       /\ proc[p].rv = NullRv

\* the call for the first descriptor answered null, and the one for the
\* second descriptor was made all the same.
C20_Witness ==
  \E p \in Callers :
    /\ proc[p].op = "downloadModels" /\ proc[p].pc = "done"
    /\ ConfigOfType(CatalogOrder[1]) \in proc[p].daFailed
    /\ ConfigOfType(CatalogOrder[2]) \in proc[p].daCalled

\* the files of the cache directory: the copies cacheModel has made.
CacheDirFiles == {path \in Paths : path.d >= 1 /\ Exists(files, path)}
Referrers(idx, path) == {i \in 1..Len(idx) : idx[i].path = path}

\* C21: between the operations of a single caller, with every deletion
\* succeeding, each file of the cache directory is the path of exactly one
\* index entry.
C21_OneFilePerEntry ==
  (\A p \in Callers : proc[p].pc \in {"idle", "done"})
  => \A path \in CacheDirFiles : Cardinality(Referrers(cacheIndex, path)) = 1

\* C22: loadCacheIndex does not throw, and when cache-index.json is
\* missing, unreadable or anything but a proper list of (name, entry)
\* pairs the in-memory index is empty afterwards.
C22_LoadDegradesToEmpty ==
  [][\A p \in Callers :
       (proc[p].pc = "lRead" /\ proc'[p].pc # "lRead")
       => /\ proc'[p].rv = NullRv
          /\ ~WellFormed(persisted) => cacheIndex' = <<>>
    ]_vars

\* C23: within a call of ensureModelAvailable a fetch is issued only if
\* fs.access found no file at the descriptor's localPath; a cacheModel
\* that fails after the file was found does not lead to a download.
C23_FetchOnlyWhenFileAbsent ==
  [][\A p \in Callers :
       (proc[p].op = "ensure" /\ proc[p].pc # "dFetch" /\ proc'[p].pc = "dFetch")
       => ~proc[p].localFound
    ]_vars

\* C24: every turn of the eviction loop removes the entry it has taken
\* from the sorted list from the index, also when fs.unlink of its file
\* fails, and subtracts its size from the running total.
C24_EvictionDropsEntryWhateverUnlinkDoes ==
  [][\A p \in Callers :
       (proc[p].pc = "mUnlink" /\ proc'[p] # proc[p])
       => /\ ~Has(cacheIndex', Head(proc[p].sorted).name)
          /\ proc'[p].pc = "mUnlink"
               => proc'[p].cur = proc[p].cur - Head(proc[p].sorted).size
    ]_vars

\* the place of a model name in ascending string order.
NameRank(n) ==
  CASE n = "aux-model" -> 1
    [] n = "distilbart-summarization" -> 2
    [] n = "whisper-small" -> 3
    [] OTHER -> 0

\* C25: the order in which a sweep takes the entries puts entries with
\* equal lastUsed in ascending order of model name, whatever the order in
\* which they were inserted.
C25_TiesBreakByName ==
  \A p \in Callers :
    proc[p].pc \in {"mUnlink", "mSave"} =>
      \A i, j \in 1..Len(proc[p].sorted0) :
        (i < j /\ proc[p].sorted0[i].lastUsed = proc[p].sorted0[j].lastUsed)
        => NameRank(proc[p].sorted0[i].name) < NameRank(proc[p].sorted0[j].name)

FetchedItself(r) ==
  r.op = "ensure" /\ r.avail # NoAvail /\ ~r.fetchFailed /\ r.registered

\* C27: when two concurrent calls of ensureModelAvailable for the same
\* absent model have each fetched it and both have returned the
\* descriptor, the index holds exactly one entry for that name.
C27_RedundantDownloadsLeaveOneEntry ==
  \A p, q \in Callers :
    (/\ p # q /\ proc[p].arg = proc[q].arg
     /\ proc[p].pc = "done" /\ proc[q].pc = "done"
     /\ proc[p].fresh /\ proc[q].fresh
     /\ FetchedItself(proc[p]) /\ FetchedItself(proc[q])
     /\ proc[p].rv.k = "config" /\ proc[q].rv.k = "config")
    => Cardinality({i \in 1..Len(cacheIndex) : cacheIndex[i].name = proc[p].arg}) = 1

\* C28: a cacheModel that fails, at fs.stat of the source or at the copy,
\* leaves the index as it was, in memory and in cache-index.json: the
\* entry of the name, if there is one, and every other entry.
C28_FailedInsertKeepsIndex ==
  [][\A p \in Callers :
       (/\ proc[p].pc \in {"cStat", "cCopy"} /\ proc'[p] # proc[p]
        /\ \/ proc[p].pc = "cStat"
           \/ proc'[p].rv = ThrowRv)
       => cacheIndex' = cacheIndex /\ persisted' = persisted
    ]_vars

\* a cacheModel for a name that has an entry has failed, at a later time
\* than the entry's, and the entry is still the one registered before.
C28_Witness ==
  \E p \in Callers :
    /\ proc[p].op = "cacheModel" /\ proc[p].pc = "done" /\ proc[p].rv = ThrowRv
    /\ Has(cacheIndex, proc[p].arg)
    /\ Get(cacheIndex, proc[p].arg).lastUsed < now

\* once all calls have returned, every entry's path is a file on disk.
QuiescentEntriesHaveFiles ==
  (\A p \in Callers : proc[p].pc \in {"idle", "done"})
  => \A i \in 1..Len(cacheIndex) : Exists(files, cacheIndex[i].path)

\* a turn of the eviction loop over its sorted snapshot, or a lazy purge
\* by a lookup that fetched its entry before the await, removes neither
\* the entry nor the file of a name that was registered anew since.
StaleStepSparesNewEntry ==
  \A p \in Callers :
    /\ (/\ proc[p].pc = "mUnlink" /\ proc'[p].sorted # proc[p].sorted
        /\ Head(proc[p].sorted).name \in proc[p].mStale
        /\ Has(cacheIndex, Head(proc[p].sorted).name))
       => /\ Has(cacheIndex', Head(proc[p].sorted).name)
          /\ Exists(files', Get(cacheIndex, Head(proc[p].sorted).name).path)
    /\ (/\ proc[p].pc = "gStat" /\ proc'[p].pc # "gStat"
        /\ ~proc[p].gLive /\ Has(cacheIndex, proc[p].gName))
       => Has(cacheIndex', proc[p].gName)

\* C29: under every interleaving of concurrent lookups, insertions (with
\* their sweeps) and clears, once all calls have returned every entry's
\* path is a file on disk, and no purge or eviction step that works on a
\* stale snapshot deletes the entry or the file of a model that a
\* concurrent insertion has just registered.
C29_ConcurrentCacheStaysConsistent ==
  []QuiescentEntriesHaveFiles /\ [][StaleStepSparesNewEntry]_vars

====
